---- MODULE Spec2Model ----
(***************************************************************************)
(* finsim: the return generator (gen_returns) and the leverage-aware       *)
(* accumulator (accumulate) of src/src/returns.rs, with the older          *)
(* accumulate of src/src/main.rs.                                          *)
(*                                                                         *)
(* Numbers.  An f64 is modelled as an exact fraction n/d with d >= 0 in    *)
(* lowest terms; d = 0 gives the IEEE specials: 1/0 = +inf, -1/0 = -inf,   *)
(* 0/0 = NaN.  Arithmetic on finite values is exact (rounding, overflow    *)
(* and signed zero of f64 are not modelled).                               *)
(*                                                                         *)
(* Logarithms are taken in units of ln 2, on powers of two, so that        *)
(* ln, exp and sqrt stay within the fractions.                             *)
(***************************************************************************)
EXTENDS Integers, Sequences, FiniteSets, TLC

\* ------------------------------------------------------------------ bounds

\* Largest num_points of a generated series and longest caller-supplied series.
MaxPoints == 3

\* Number of states of the modelled pseudo-random source.
RngMod == 5

\* ------------------------------------------------------------ f64 arithmetic

Abs(x) == IF x < 0 THEN -x ELSE x

Sgn(x) == IF x < 0 THEN -1 ELSE IF x > 0 THEN 1 ELSE 0

RECURSIVE GCD(_, _)
GCD(a, b) == IF b = 0 THEN a ELSE GCD(b, a % b)

\* The fraction n/d in lowest terms, sign in the numerator.
Norm(n, d) ==
    IF d = 0 THEN [n |-> Sgn(n), d |-> 0]
    ELSE LET g == GCD(Abs(n), Abs(d))
             s == Sgn(n) * Sgn(d)
         IN  [n |-> s * (Abs(n) \div g), d |-> Abs(d) \div g]

F(i) == [n |-> i, d |-> 1]

Q(n, d) == Norm(n, d)

Zero == F(0)

One == F(1)

Inf == [n |-> 1, d |-> 0]

NaN == [n |-> 0, d |-> 0]

IsNaN(a) == a.d = 0 /\ a.n = 0

IsFinite(a) == a.d # 0

Neg(a) == [n |-> -a.n, d |-> a.d]

Mul(a, b) == Norm(a.n * b.n, a.d * b.d)

Recip(a) == IF a.n < 0 THEN [n |-> -a.d, d |-> -a.n] ELSE [n |-> a.d, d |-> a.n]

Div(a, b) == Mul(a, Recip(b))

Add(a, b) ==
    IF a.d = 0 /\ b.d = 0
    THEN (IF a.n = b.n THEN a ELSE NaN)
    ELSE Norm(a.n * b.d + b.n * a.d, a.d * b.d)

Sub(a, b) == Add(a, Neg(b))

\* a < b and a <= b on finite values.
Lt(a, b) == a.n * b.d < b.n * a.d

Le(a, b) == a.n * b.d <= b.n * a.d

\* The smaller of two finite values.
F64Min(a, b) == IF IsNaN(a) THEN b ELSE IF IsNaN(b) THEN a ELSE IF Le(a, b) THEN a ELSE b

\* f64::max: the other operand when one is NaN, else the larger.
F64Max(a, b) ==
    IF IsNaN(a) THEN b
    ELSE IF IsNaN(b) THEN a
    ELSE IF a.d = 0 /\ b.d = 0 THEN (IF a.n >= b.n THEN a ELSE b)
    ELSE IF a.d = 0 THEN (IF a.n > 0 THEN a ELSE b)
    ELSE IF b.d = 0 THEN (IF b.n > 0 THEN b ELSE a)
    ELSE IF Le(a, b) THEN b ELSE a

RECURSIVE PowI(_, _)
PowI(a, k) == IF k = 0 THEN One ELSE Mul(a, PowI(a, k - 1))

\* f64::powf for an integral exponent f.
Powf(r, f) == IF f.n >= 0 THEN PowI(r, f.n) ELSE PowI(Recip(r), -f.n)

\* f64::powi(2).
Powi2(a) == Mul(a, a)

RECURSIVE Log2(_)
Log2(k) == IF k <= 1 THEN 0 ELSE 1 + Log2(k \div 2)

\* f64::ln in units of ln 2, on powers of two: ln 0 = -inf, ln of a negative = NaN.
Ln(a) ==
    IF IsNaN(a) \/ a.n < 0 THEN NaN
    ELSE IF a.n = 0 THEN Neg(Inf)
    ELSE IF a.d = 0 THEN Inf
    ELSE F(Log2(a.n) - Log2(a.d))

\* Option<T>: None is the empty tuple, Some(v) the 1-tuple.
None == << >>

Some(v) == << v >>

IsSome(o) == o # << >>

Unwrap(o) == o[1]

\* ------------------------------------------------------------ gen_returns

SECONDS_PER_YEAR == 31556952

\* Inputs of the model: second counts (usize), yearly statistics (powers of two),
\* seeds (u64).
SecondsValues == {0, SECONDS_PER_YEAR}

OptSeconds == {None} \cup {Some(s) : s \in SecondsValues}

YearlyMeans == {Q(1, 2), One, F(2)}

YearlyStddevs == {One, F(2)}

Seeds == {1, 2}

GenReturnsArgs ==
    [total_seconds : OptSeconds,
     interval_seconds : OptSeconds,
     num_points : 0 .. MaxPoints,
     yearly_mean : YearlyMeans,
     yearly_stddev : YearlyStddevs,
     seed : {None} \cup {Some(s) : s \in Seeds}]

\* let mut interval_seconds = 0.0, then the if / else-if over the two options.
interval_seconds(a) ==
    IF IsSome(a.total_seconds)
    THEN Div(F(Unwrap(a.total_seconds)), F(a.num_points))
    ELSE IF IsSome(a.interval_seconds)
    THEN F(Unwrap(a.interval_seconds))
    ELSE Zero

total_seconds(a) ==
    IF IsSome(a.total_seconds)
    THEN F(Unwrap(a.total_seconds))
    ELSE IF IsSome(a.interval_seconds)
    THEN Mul(interval_seconds(a), F(a.num_points))
    ELSE Zero

yearly_mu(a) == Ln(a.yearly_mean)

yearly_sigma(a) == Ln(a.yearly_stddev)

ticks_per_year(a) == Div(F(SECONDS_PER_YEAR), interval_seconds(a))

tick_mu(a) == Div(yearly_mu(a), ticks_per_year(a))

\* The argument of sqrt in tick_sigma; tick_sigma is carried as its square.
tick_sigma_sq(a) == Div(Powi2(yearly_sigma(a)), ticks_per_year(a))

\* LogNormal::new(mu, sigma) is Ok iff sigma = sqrt(sigma_sq) is finite.
LogNormalNewOk(mu, sigma_sq) == IsFinite(sigma_sq) /\ sigma_sq.n >= 0

\* StdRng: a deterministic generator over RngMod states.
seed_from_u64(seed) == (2 * seed + 1) % RngMod

RngStep(s) == (s + 2) % RngMod

\* The standard normal draw read off a generator state: -1, 0 or 1.
StandardNormal(s) == (s % 3) - 1

EntropyOnly(seed, entropy) == entropy

\* if let Some(seed) = args.seed { seed_from_u64(seed) } else { from_entropy() }
InitialRng(seed, entropy) ==
    IF IsSome(seed) THEN seed_from_u64(Unwrap(seed)) ELSE entropy

\* Sign of mu + z * sqrt(sigma_sq), for z in {-1, 0, 1} and finite mu, sigma_sq.
SignOfLog(mu, sigma_sq, z) ==
    IF z = 0 THEN Sgn(mu.n)
    ELSE LET m == IF z = 1 THEN mu ELSE Neg(mu)
             s == IF m.n >= 0
                  THEN (IF m.n > 0 \/ sigma_sq.n > 0 THEN 1 ELSE 0)
                  ELSE (IF Lt(Powi2(m), sigma_sq) THEN 1
                        ELSE IF Powi2(m) = sigma_sq THEN 0 ELSE -1)
         IN  z * s

\* LogNormal sample exp(mu + sigma * z), with the log-return rounded to its sign:
\* one of 1/2, 1, 2.
Sample(distr, z) == Powf(F(2), F(SignOfLog(distr.mu, distr.sigma_sq, z)))

TakeOffByOne(n, produced) == produced > n

\* Take<I>::next: no more items once n have been produced.
TakeExhausted(n, produced) == produced >= n

\* -------------------------------------------------------------- accumulate

StartValues == {F(-1), F(10)}

ReturnValues == {Q(1, 2), One, F(2)}

ContinuousFactors == {F(-1), Zero, F(2)}

PointwiseFactors == {F(-2), Zero, F(3)}

InitialFactors == {F(-1), F(2)}

Opt(S) == {None} \cup {Some(f) : f \in S}

AccumulateArgs ==
    [accumulate : BOOLEAN,
     start_value : StartValues,
     continuous_leverage : Opt(ContinuousFactors),
     pointwise_leverage : Opt(PointwiseFactors),
     initial_leverage : Opt(InitialFactors)]

RECURSIVE SeqsUpTo(_, _)
SeqsUpTo(S, n) ==
    IF n = 0 THEN {<< >>}
    ELSE LET T == SeqsUpTo(S, n - 1)
         IN  T \cup {Append(t, x) : t \in {u \in T : Len(u) = n - 1}, x \in S}

ReturnSeries == SeqsUpTo(ReturnValues, MaxPoints)

PolicyIgnoringFlag(a) ==
    IF IsSome(a.continuous_leverage) THEN "Continuous"
    ELSE IF IsSome(a.pointwise_leverage) THEN "Pointwise"
    ELSE IF IsSome(a.initial_leverage) THEN "Initial"
    ELSE "Compound"

PolicyPointwiseFirst(a) ==
    IF ~a.accumulate THEN "None"
    ELSE IF IsSome(a.pointwise_leverage) THEN "Pointwise"
    ELSE IF IsSome(a.continuous_leverage) THEN "Continuous"
    ELSE IF IsSome(a.initial_leverage) THEN "Initial"
    ELSE "Compound"

\* The branch of accumulate taken: the early return, then the if-let chain.
Policy(a) ==
    IF ~a.accumulate THEN "None"
    ELSE IF IsSome(a.continuous_leverage) THEN "Continuous"
    ELSE IF IsSome(a.pointwise_leverage) THEN "Pointwise"
    ELSE IF IsSome(a.initial_leverage) THEN "Initial"
    ELSE "Compound"

ContinuousMapLinear(r, f) == Mul(r, f)

\* |r| r.powf(continuous_leverage)
ContinuousMap(r, f) == Powf(r, f)

PointwiseMapNoFloor(r, f) == Add(One, Mul(Sub(r, One), f))

\* |r| (1.0 + ((r - 1.0) * pointwise_leverage)).max(0.0)
PointwiseMap(r, f) == F64Max(Add(One, Mul(Sub(r, One), f)), Zero)

FoldAdd(acc, r) == Add(acc, r)

\* |r| {let v = acc * r; acc = v; v}: the new running value, which is also passed on.
Fold(acc, r) == Mul(acc, r)

InitialAccUnleveraged(a) == a.start_value

\* let mut acc = args.start_value; under initial leverage acc = start_value * f.
InitialAcc(a) ==
    IF Policy(a) = "Initial"
    THEN Mul(a.start_value, Unwrap(a.initial_leverage))
    ELSE a.start_value

\* The first map of the chain: the multiplier handed to the fold.
Multiplier(a, r) ==
    IF Policy(a) = "Continuous" THEN ContinuousMap(r, Unwrap(a.continuous_leverage))
    ELSE IF Policy(a) = "Pointwise" THEN PointwiseMap(r, Unwrap(a.pointwise_leverage))
    ELSE r

\* The last map of the chain: |a| a - start_value * (initial_leverage - 1.0).
Emit(a, v) ==
    IF Policy(a) = "Initial"
    THEN Sub(v, Mul(a.start_value, Sub(Unwrap(a.initial_leverage), One)))
    ELSE v

\* accumulate(returns, start_value) of main.rs, as a scan.
RECURSIVE accumulate_main(_, _)
accumulate_main(rs, start_value) ==
    IF rs = << >> THEN << >>
    ELSE LET v == Mul(start_value, Head(rs))
         IN  << v >> \o accumulate_main(Tail(rs), v)

\* ------------------------------------------------------------------- state

VARIABLES
    args,      \* the GenReturnsArgs of the generator runs, None before the first
    run,       \* run[k]: the k-th iterator returned by gen_returns
    aargs,     \* the AccumulateArgs of the accumulate call, None before it
    returns,   \* the series handed to accumulate
    fed,       \* whether returns is a collected generator run
    apc,       \* position in accumulate: "idle", "iter", "done"
    acc,       \* let mut acc
    mult,      \* the value last handed from the first map to the fold
    out        \* the Vec collected so far

vars == << args, run, aargs, returns, fed, apc, acc, mult, out >>

Runs == {1, 2}

IdleRun ==
    [pc |-> "idle", rng |-> 0, distr |-> [mu |-> Zero, sigma_sq |-> Zero],
     out |-> << >>]

Init ==
    /\ args = None
    /\ run = [k \in Runs |-> IdleRun]
    /\ aargs = None
    /\ returns = << >>
    /\ fed = FALSE
    /\ apc = "idle"
    /\ acc = Zero
    /\ mult = Zero
    /\ out = << >>

accVars == << aargs, returns, fed, apc, acc, mult, out >>

\* gen_returns(&args): everything up to the lazy iterator it returns.  The first
\* run fixes the arguments; a second run is a re-invocation with the same ones.
gen_returns(k, a, entropy) ==
    /\ apc = "idle"
    /\ run[k].pc = "idle"
    /\ IF k = 1 THEN args = None ELSE args = Some(a)
    /\ args' = Some(a)
    /\ LET mu == tick_mu(a)
           sigma_sq == tick_sigma_sq(a)
       IN  IF LogNormalNewOk(mu, sigma_sq)
           THEN run' = [run EXCEPT ![k] =
                   [pc |-> "iter",
                    rng |-> InitialRng(a.seed, entropy),
                    distr |-> [mu |-> mu, sigma_sq |-> sigma_sq],
                    out |-> << >>]]
           ELSE run' = [run EXCEPT ![k].pc = "panicked"]
    /\ UNCHANGED accVars

\* One pull on tick_distr.sample_iter(rng).take(num_points).
IterNext(k) ==
    /\ apc = "idle"
    /\ run[k].pc = "iter"
    /\ LET a == Unwrap(args)
           r == run[k]
           s == RngStep(r.rng)
       IN  IF TakeExhausted(a.num_points, Len(r.out))
           THEN run' = [run EXCEPT ![k].pc = "done"]
           ELSE run' = [run EXCEPT ![k].rng = s,
                                   ![k].out = Append(r.out, Sample(r.distr, StandardNormal(s)))]
    /\ UNCHANGED << args, accVars >>

\* accumulate(returns, &args) entered: the early return or let mut acc.
Enter(rs, a, isFed) ==
    /\ aargs' = Some(a)
    /\ returns' = rs
    /\ fed' = isFed
    /\ apc' = "iter"
    /\ acc' = IF Policy(a) = "None" THEN Zero ELSE InitialAcc(a)
    /\ mult' = Zero
    /\ out' = << >>
    /\ args' = None
    /\ run' = [k \in Runs |-> IdleRun]

\* accumulate called on a caller-built series.
accumulate(rs, a) ==
    /\ apc = "idle"
    /\ args = None
    /\ Enter(rs, a, FALSE)

\* accumulate called on the collected generator run of a one-run pipeline.
accumulate_generated(a) ==
    /\ apc = "idle"
    /\ run[1].pc = "done"
    /\ run[2].pc = "idle"
    /\ Enter(run[1].out, a, TRUE)

\* One item through the map chain into the Vec, or the end of collect().
AccumulateNext ==
    /\ apc = "iter"
    /\ LET a == Unwrap(aargs)
           i == Len(out) + 1
       IN  IF i > Len(returns)
           THEN /\ apc' = "done"
                /\ UNCHANGED << acc, mult, out >>
           ELSE IF Policy(a) = "None"
           THEN /\ out' = Append(out, returns[i])
                /\ UNCHANGED << apc, acc, mult >>
           ELSE LET m == Multiplier(a, returns[i])
                    v == Fold(acc, m)
                IN  /\ mult' = m
                    /\ acc' = v
                    /\ out' = Append(out, Emit(a, v))
                    /\ UNCHANGED apc
    /\ UNCHANGED << args, run, aargs, returns, fed >>

\* The enabling conditions are repeated in front of the quantifiers.
Next ==
    \/ /\ apc = "idle" /\ args = None
       /\ \E a \in GenReturnsArgs, e \in 0 .. RngMod - 1 : gen_returns(1, a, e)
    \/ /\ apc = "idle" /\ args # None /\ run[2].pc = "idle"
       /\ \E e \in 0 .. RngMod - 1 : gen_returns(2, Unwrap(args), e)
    \/ \E k \in Runs : IterNext(k)
    \/ /\ apc = "idle" /\ args = None
       /\ \E rs \in ReturnSeries, a \in AccumulateArgs : accumulate(rs, a)
    \/ /\ apc = "idle" /\ run[1].pc = "done" /\ run[2].pc = "idle"
       /\ \E a \in AccumulateArgs : accumulate_generated(a)
    \/ AccumulateNext

Spec == Init /\ [][Next]_vars

\* ------------------------------------------------------------------ claims

\* What the claims are stated with: products written out from the definitions
\* in the specification, independent of the operators used by the actions.

RECURSIVE Prod(_, _)
Prod(rs, i) == IF i = 0 THEN One ELSE Mul(Prod(rs, i - 1), rs[i])

RECURSIVE ProdPow(_, _, _)
ProdPow(rs, f, i) == IF i = 0 THEN One ELSE Mul(ProdPow(rs, f, i - 1), Powf(rs[i], f))

\* max(0, 1 + (r - 1) * f)
Floored(r, f) ==
    LET x == Add(One, Mul(Sub(r, One), f))
    IN  IF x.n < 0 THEN Zero ELSE x

RECURSIVE ProdFloored(_, _, _)
ProdFloored(rs, f, i) ==
    IF i = 0 THEN One ELSE Mul(ProdFloored(rs, f, i - 1), Floored(rs[i], f))

A == Unwrap(aargs)

V == A.start_value

G == Unwrap(args)

Entered == apc # "idle"

OnlyCompound ==
    /\ A.accumulate
    /\ A.continuous_leverage = None
    /\ A.pointwise_leverage = None
    /\ A.initial_leverage = None

OnlyInitial ==
    /\ A.accumulate
    /\ A.continuous_leverage = None
    /\ A.pointwise_leverage = None
    /\ A.initial_leverage # None

OnlyPointwise ==
    /\ A.accumulate
    /\ A.continuous_leverage = None
    /\ A.pointwise_leverage # None
    /\ A.initial_leverage = None

Prev(i) == IF i = 1 THEN V ELSE out[i - 1]

\* C1: with accumulation on and no leverage factor set, out[i] is start_value times
\* the product of returns[1..i], i.e. out[1] = V * returns[1] and out[i] =
\* out[i-1] * returns[i]; the accumulate of main.rs gives the same series.
C1_CompoundingIdentity ==
    (Entered /\ OnlyCompound) =>
        /\ \A i \in 1 .. Len(out) :
              /\ out[i] = Mul(V, Prod(returns, i))
              /\ out[i] = Mul(Prev(i), returns[i])
        /\ apc = "done" => out = accumulate_main(returns, V)

C1_Witness ==
    /\ apc = "done"
    /\ OnlyCompound
    /\ Len(out) >= 2
    /\ out[1] # V
    /\ out[2] # out[1]

\* C2: with only initial_leverage = f set, out[i] = V*f*prod(returns[1..i]) - V*(f-1),
\* and the running value is V*f*prod(...): the offset is taken off the emitted value
\* only.
C2_InitialLeverageIdentity ==
    (Entered /\ OnlyInitial) =>
        LET f == Unwrap(A.initial_leverage)
            offset == Mul(V, Sub(f, One))
        IN  /\ \A i \in 1 .. Len(out) :
                  out[i] = Sub(Mul(Mul(V, f), Prod(returns, i)), offset)
            /\ acc = Mul(Mul(V, f), Prod(returns, Len(out)))

C2_Witness ==
    /\ apc = "done"
    /\ OnlyInitial
    /\ Unwrap(A.initial_leverage) = F(2)
    /\ Len(out) >= 2
    /\ out[2] # out[1]
    /\ acc # out[Len(out)]

\* C3: with continuous_leverage = f set, out[i] = V * prod(r^f for r in
\* returns[1..i]); with f = 0 every output is V.
C3_ContinuousLeverageIdentity ==
    (Entered /\ A.accumulate /\ A.continuous_leverage # None) =>
        LET f == Unwrap(A.continuous_leverage)
        IN  \A i \in 1 .. Len(out) :
                /\ out[i] = Mul(V, ProdPow(returns, f, i))
                /\ f = Zero => out[i] = V

C3_Witness ==
    /\ apc = "done"
    /\ A.accumulate
    /\ A.continuous_leverage = Some(F(2))
    /\ Len(out) >= 2
    /\ out[1] # Mul(V, returns[1])
    /\ out[2] # out[1]

\* C4: with only pointwise_leverage = f set, each tick multiplies the running value
\* by max(0, 1 + (r - 1) * f), which is never negative.
C4_PointwiseFloor ==
    /\ \A r \in ReturnValues, f \in PointwiseFactors : PointwiseMap(r, f).n >= 0
    /\ (Entered /\ OnlyPointwise /\ Len(out) >= 1) =>
          LET i == Len(out)
              f == Unwrap(A.pointwise_leverage)
          IN  /\ mult = Floored(returns[i], f)
              /\ mult.n >= 0
              /\ out[i] = Mul(Prev(i), mult)
              /\ acc = out[i]

C4_Witness ==
    /\ Entered
    /\ OnlyPointwise
    /\ Len(out) >= 2
    /\ Unwrap(A.pointwise_leverage).n < 0
    /\ out[Len(out) - 1] # Zero
    /\ Add(One, Mul(Sub(returns[Len(out)], One), Unwrap(A.pointwise_leverage))).n < 0
    /\ mult = Zero

\* C5: a generator run yields exactly num_points values and then ends, and
\* accumulate yields one value per input value under every policy; an empty input
\* gives an empty output.
C5_LengthPreservation ==
    /\ args # None =>
          \A k \in Runs :
              /\ Len(run[k].out) <= G.num_points
              /\ run[k].pc = "done" => Len(run[k].out) = G.num_points
              /\ run[k].pc = "panicked" => run[k].out = << >>
    /\ Entered =>
          /\ Len(out) <= Len(returns)
          /\ apc = "done" => Len(out) = Len(returns)
          /\ fed => Len(returns) <= MaxPoints

C5_Witness ==
    /\ apc = "done"
    /\ fed
    /\ A.accumulate
    /\ Len(returns) >= 2
    /\ Len(out) = Len(returns)

\* C6: with the accumulate flag false the output is the input series, element for
\* element, whatever start_value and the leverage factors are.
C6_PassThrough ==
    (Entered /\ ~A.accumulate) =>
        /\ out = SubSeq(returns, 1, Len(out))
        /\ apc = "done" => out = returns

C6_Witness ==
    /\ apc = "done"
    /\ ~A.accumulate
    /\ V = F(10)
    /\ A.continuous_leverage # None
    /\ A.pointwise_leverage # None
    /\ A.initial_leverage # None
    /\ Len(out) >= 2
    /\ out[1] # out[2]

RECURSIVE RngAfter(_, _)
RngAfter(s, n) == IF n = 0 THEN s ELSE RngStep(RngAfter(s, n - 1))

Min(a, b) == IF a <= b THEN a ELSE b

\* C7: with a seed present, two runs on the same arguments produce the same
\* sequence, and the random source of each run depends on the seed and on the
\* number of values that run has drawn, and on nothing else.
C7_SeededDeterminism ==
    (args # None /\ G.seed # None) =>
        /\ \A i \in 1 .. Min(Len(run[1].out), Len(run[2].out)) :
              run[1].out[i] = run[2].out[i]
        /\ (run[1].pc = "done" /\ run[2].pc = "done") => run[1].out = run[2].out
        /\ \A k \in Runs :
              run[k].pc \in {"iter", "done"} =>
                  run[k].rng = RngAfter(seed_from_u64(Unwrap(G.seed)), Len(run[k].out))

C7_Witness ==
    /\ args # None
    /\ G.seed # None
    /\ run[1].pc = "done"
    /\ run[2].pc = "done"
    /\ Len(run[1].out) >= 2
    /\ run[1].out[1] # run[1].out[2]
    /\ run[1].out = run[2].out

\* C8: a grid whose interval_seconds resolves to 0 is rejected before
\* ticks_per_year is computed, and no return series is produced from it.
C8_ZeroIntervalRejected ==
    (/\ args # None
     /\ G.num_points >= 1
     /\ \/ G.total_seconds = None /\ G.interval_seconds = Some(0)
        \/ G.total_seconds = Some(0) /\ G.interval_seconds = None
     /\ interval_seconds(G) = Zero) =>
        \A k \in Runs : run[k].pc # "done" /\ run[k].out = << >>

\* C9: under pointwise leverage with start_value >= 0 every emitted value is >= 0,
\* and once an emitted value is 0 every later one is 0.
C9_ZeroAbsorbing ==
    (Entered /\ A.accumulate /\ A.continuous_leverage = None
        /\ A.pointwise_leverage # None /\ V.n >= 0) =>
        /\ \A i \in 1 .. Len(out) : out[i].n >= 0
        /\ \A i, j \in 1 .. Len(out) : (i < j /\ out[i] = Zero) => out[j] = Zero

C9_Witness ==
    /\ Entered
    /\ A.accumulate
    /\ A.continuous_leverage = None
    /\ A.pointwise_leverage # None
    /\ V.n > 0
    /\ Len(out) >= 3
    /\ out[1] # Zero
    /\ out[2] = Zero
    /\ Floored(returns[3], Unwrap(A.pointwise_leverage)).n > 0
    /\ out[3] = Zero

\* C10: accumulate takes arguments with several leverage factors set and applies
\* one policy, by the precedence continuous, pointwise, initial, compound; the
\* factors it passes over do not change the output.
C10_PolicyPrecedence ==
    /\ apc \in {"idle", "iter", "done"}
    /\ apc = "done" => Len(out) = Len(returns)
    /\ (Entered /\ A.accumulate) =>
          \A i \in 1 .. Len(out) :
              IF A.continuous_leverage # None
              THEN out[i] = Mul(V, ProdPow(returns, Unwrap(A.continuous_leverage), i))
              ELSE IF A.pointwise_leverage # None
              THEN out[i] = Mul(V, ProdFloored(returns, Unwrap(A.pointwise_leverage), i))
              ELSE IF A.initial_leverage # None
              THEN LET f == Unwrap(A.initial_leverage)
                   IN  out[i] = Sub(Mul(Mul(V, f), Prod(returns, i)), Mul(V, Sub(f, One)))
              ELSE out[i] = Mul(V, Prod(returns, i))

C10_Witness ==
    /\ apc = "done"
    /\ A.accumulate
    /\ A.continuous_leverage # None
    /\ A.pointwise_leverage # None
    /\ A.initial_leverage # None
    /\ Len(out) >= 2
    /\ out[2] # Mul(V, ProdFloored(returns, Unwrap(A.pointwise_leverage), 2))
    /\ out[2] # Mul(V, Prod(returns, 2))
    /\ LET f == Unwrap(A.initial_leverage)
       IN  out[2] # Sub(Mul(Mul(V, f), Prod(returns, 2)), Mul(V, Sub(f, One)))

====
